---- MODULE Spec2Model ----
(***************************************************************************)
(* A model of go-emailaddress (emailaddress.go): the two compiled regular  *)
(* expressions, Parse, EmailAddress.String, Find, EmailAddress.ValidateHost*)
(* lookupHost and tryHost.                                                 *)
(*                                                                         *)
(* A Go string is modelled as a sequence of characters, each character a   *)
(* one-character TLA+ string; a byte outside printable ASCII is one of the *)
(* named characters of Special.  The regular expressions are kept as       *)
(* syntax trees that mirror the source patterns piece by piece, and are    *)
(* run by a backtracking matcher that lists the possible ends of a match   *)
(* in the order of preference of Go's regexp package (leftmost-first,      *)
(* greedy repetition).                                                     *)
(***************************************************************************)
EXTENDS Integers, Sequences, FiniteSets, TLC

(***************************************************************************)
(* Characters and their code points                                        *)
(***************************************************************************)

\* The printable ASCII characters, 0x20 .. 0x7e, in code order (0x60, the
\* grave accent, under the name GRAVE).
Printable ==
   <<
      " ", "!", "\"", "#", "$", "%", "&", "'", "(", ")", "*", "+", ",", "-", ".", "/",
      "0", "1", "2", "3", "4", "5", "6", "7", "8", "9", ":", ";", "<", "=", ">", "?",
      "@", "A", "B", "C", "D", "E", "F", "G", "H", "I", "J", "K", "L", "M", "N", "O",
      "P", "Q", "R", "S", "T", "U", "V", "W", "X", "Y", "Z", "[", "\\", "]", "^", "_",
      "GRAVE", "a", "b", "c", "d", "e", "f", "g", "h", "i", "j", "k", "l", "m", "n", "o",
      "p", "q", "r", "s", "t", "u", "v", "w", "x", "y", "z", "{", "|", "}", "~"
   >>

\* Characters outside printable ASCII, by code point: TAB, DEL and a
\* non-ASCII letter (HIRAGANA LETTER A, as in the repository's tests).
Special == {<<"TAB", 9>>, <<"DEL", 127>>, <<"U+3042", 12354>>}

\* The code point of every modelled character.
CodeOf ==
   [c \in {Printable[k] : k \in 1..Len(Printable)} \cup {p[1] : p \in Special} |->
      IF \E p \in Special : p[1] = c
      THEN (CHOOSE p \in Special : p[1] = c)[2]
      ELSE 31 + (CHOOSE k \in 1..Len(Printable) : Printable[k] = c)]

\* (?i): the other case of an ASCII letter, the code itself otherwise.
Fold(k) ==
   IF k >= 65 /\ k <= 90 THEN k + 32
   ELSE IF k >= 97 /\ k <= 122 THEN k - 32
   ELSE k

\* Whether character c is in the class given as a set of <<lo, hi>> code
\* ranges, under the case-insensitive flag of both patterns.
InClass(c, ranges) ==
   LET k == CodeOf[c]
       f == Fold(k)
   IN  \E r \in ranges : (r[1] <= k /\ k <= r[2]) \/ (r[1] <= f /\ f <= r[2])

(***************************************************************************)
(* Regular expressions as syntax trees                                     *)
(***************************************************************************)

Cls(ranges) == [t |-> "cls", r |-> ranges]
Chr(c)      == Cls({<<CodeOf[c], CodeOf[c]>>})
Cat(parts)  == [t |-> "cat", a |-> parts]
Alt(parts)  == [t |-> "alt", a |-> parts]
Star(x)     == [t |-> "star", x |-> x]
Plus(x)     == [t |-> "plus", x |-> x]
Opt(x)      == [t |-> "opt", x |-> x]
Rep(x, n)   == [t |-> "cat", a |-> [k \in 1..n |-> x]]
Bol         == [t |-> "bol"]
Eol         == [t |-> "eol"]

\* The elements of a sequence of positions with later repeats removed.
RECURSIVE Dedup(_)
Dedup(q) ==
   IF q = <<>> THEN <<>>
   ELSE LET front == Dedup(SubSeq(q, 1, Len(q) - 1))
            x     == q[Len(q)]
        IN  IF \E k \in 1..Len(front) : front[k] = x THEN front
            ELSE Append(front, x)

\* M(re, s, i): the positions at which a match of re that starts at
\* position i of s can end (the index of the next unread character), most
\* preferred first, as a backtracking matcher tries them.
RECURSIVE M(_, _, _), Each(_, _, _), Seqn(_, _, _, _), Choice(_, _, _, _),
          Greedy(_, _, _), EachGreedy(_, _, _)
M(re, s, i) ==
   CASE re.t = "cls"  -> IF i <= Len(s) /\ InClass(s[i], re.r) THEN <<i + 1>> ELSE <<>>
     [] re.t = "bol"  -> IF i = 1 THEN <<i>> ELSE <<>>
     [] re.t = "eol"  -> IF i = Len(s) + 1 THEN <<i>> ELSE <<>>
     [] re.t = "cat"  -> Seqn(re.a, 1, s, <<i>>)
     [] re.t = "alt"  -> Choice(re.a, 1, s, i)
     [] re.t = "star" -> Greedy(re.x, s, i)
     [] re.t = "plus" -> Dedup(EachGreedy(re.x, s, M(re.x, s, i)))
     [] re.t = "opt"  -> Dedup(M(re.x, s, i) \o <<i>>)

\* re from each of the positions js, in order.
Each(re, s, js) ==
   IF js = <<>> THEN <<>>
   ELSE M(re, s, Head(js)) \o Each(re, s, Tail(js))

\* The parts a[k], a[k+1], ... one after the other, from the positions js.
Seqn(a, k, s, js) ==
   IF k > Len(a) \/ js = <<>> THEN js
   ELSE Seqn(a, k + 1, s, Dedup(Each(a[k], s, js)))

\* The alternatives a[k], a[k+1], ... at i, the earlier one preferred.
Choice(a, k, s, i) ==
   IF k > Len(a) THEN <<>>
   ELSE Dedup(M(a[k], s, i) \o Choice(a, k + 1, s, i))

\* x*, greedy: one more x is preferred to stopping; an empty iteration is
\* not repeated.
Greedy(x, s, i) ==
   Dedup(EachGreedy(x, s, SelectSeq(M(x, s, i), LAMBDA j : j > i)) \o <<i>>)

EachGreedy(x, s, js) ==
   IF js = <<>> THEN <<>>
   ELSE Greedy(x, s, Head(js)) \o EachGreedy(x, s, Tail(js))

(***************************************************************************)
(* The address grammar of the two patterns                                 *)
(***************************************************************************)

\* [a-z0-9]
AlNum == Cls({<<97, 122>>, <<48, 57>>})
\* [a-z0-9-]
AlNumHyphen == Cls({<<97, 122>>, <<48, 57>>, <<45, 45>>})
\* The atom class: a-z 0-9 and ! # $ % & ' * + / = ? ^ _ GRAVE { | } ~ -
AtomChar ==
   Cls({<<97, 122>>, <<48, 57>>, <<33, 33>>, <<35, 39>>, <<42, 43>>, <<47, 47>>,
        <<61, 61>>, <<63, 63>>, <<94, 96>>, <<123, 126>>, <<45, 45>>})
\* [\x01-\x08\x0b\x0c\x0e-\x1f\x21\x23-\x5b\x5d-\x7f]
QText == Cls({<<1, 8>>, <<11, 12>>, <<14, 31>>, <<33, 33>>, <<35, 91>>, <<93, 127>>})
\* [\x01-\x09\x0b\x0c\x0e-\x7f]
Escaped == Cls({<<1, 9>>, <<11, 12>>, <<14, 127>>})
\* [\x01-\x08\x0b\x0c\x0e-\x1f\x21-\x5a\x53-\x7f]
DText == Cls({<<1, 8>>, <<11, 12>>, <<14, 31>>, <<33, 90>>, <<83, 127>>})

\* atom+(?:\.atom+)*
DotAtom == Cat(<<Plus(AtomChar), Star(Cat(<<Chr("."), Plus(AtomChar)>>))>>)
\* DQUOTE(?:qtext|\\escaped)*DQUOTE
QuotedString ==
   Cat(<<Chr("\""), Star(Alt(<<QText, Cat(<<Chr("\\"), Escaped>>)>>)), Chr("\"")>>)
\* (?:dot-atom|quoted-string)
LocalPartRe == Alt(<<DotAtom, QuotedString>>)

\* [a-z0-9](?:[a-z0-9-]*[a-z0-9])?
Label == Cat(<<AlNum, Opt(Cat(<<Star(AlNumHyphen), AlNum>>))>>)
\* (?:label\.)+label
HostName == Cat(<<Plus(Cat(<<Label, Chr(".")>>)), Label>>)
\* (2(5[0-5]|[0-4][0-9])|1[0-9][0-9]|[1-9]?[0-9])
Digit == Cls({<<48, 57>>})
Octet ==
   Alt(<<Cat(<<Chr("2"), Alt(<<Cat(<<Chr("5"), Cls({<<48, 53>>})>>),
                              Cat(<<Cls({<<48, 52>>}), Digit>>)>>)>>),
         Cat(<<Chr("1"), Digit, Digit>>),
         Cat(<<Opt(Cls({<<49, 57>>})), Digit>>)>>)
\* \[(?:octet\.){3}(?:octet|[a-z0-9-]*[a-z0-9]:(?:dtext|\\escaped)+)\]
AddressLiteral ==
   Cat(<<Chr("["), Rep(Cat(<<Octet, Chr(".")>>), 3),
         Alt(<<Octet,
               Cat(<<Star(AlNumHyphen), AlNum, Chr(":"),
                     Plus(Alt(<<DText, Cat(<<Chr("\\"), Escaped>>)>>))>>)>>),
         Chr("]")>>)
\* (?:hostname|address-literal)
DomainRe == Alt(<<HostName, AddressLiteral>>)

\* The search pattern with a local part of atom characters and dots in any
\* order (a mutant of findEmailRegexp).
findEmailRegexpDotted ==
   Cat(<<Plus(Alt(<<AtomChar, Chr(".")>>)), Chr("@"), DomainRe>>)

\* validEmailRegexp: ^(?i)(?:local)@(?:domain)*$
validEmailRegexp == Cat(<<Bol, LocalPartRe, Chr("@"), Star(DomainRe), Eol>>)
\* findEmailRegexp: (?i)(?:local)@(?:domain)
findEmailRegexp == Cat(<<LocalPartRe, Chr("@"), DomainRe>>)

\* regexp.MatchString: some substring of s matches re.
MatchString(re, s) == \E i \in 1..(Len(s) + 1) : M(re, s, i) /= <<>>

\* strings.LastIndexByte, 1-based: the last position of c in s, 0 when c
\* does not occur (Go's -1).
LastIndexByte(s, c) ==
   IF \E k \in 1..Len(s) : s[k] = c
   THEN CHOOSE k \in 1..Len(s) : s[k] = c /\ \A j \in (k + 1)..Len(s) : s[j] /= c
   ELSE 0

\* A nil *EmailAddress.
NilAddress == [nil |-> TRUE]

\* Parse with the domain cut at i instead of i + 1 (a mutant of Parse).
ParseKeepsSeparator(s) ==
   IF ~MatchString(validEmailRegexp, s)
   THEN [e |-> NilAddress, err |-> TRUE]
   ELSE LET i == LastIndexByte(s, "@")
        IN  [e   |-> [LocalPart |-> SubSeq(s, 1, i - 1),
                      Domain    |-> SubSeq(s, i, Len(s))],
             err |-> FALSE]

\* Parse: the error when validEmailRegexp does not match, else the split at
\* the last '@' (email[:i] and email[i+1:]).  A match always holds an '@',
\* so i is never 0 where the split is made.
Parse(s) ==
   IF ~MatchString(validEmailRegexp, s)
   THEN [e |-> NilAddress, err |-> TRUE]
   ELSE LET i == LastIndexByte(s, "@")
        IN  [e   |-> [LocalPart |-> SubSeq(s, 1, i - 1),
                      Domain    |-> SubSeq(s, i + 1, Len(s))],
             err |-> FALSE]

\* EmailAddress.String: fmt.Sprintf("%s@%s", e.LocalPart, e.Domain).
String(a) == a.LocalPart \o <<"@">> \o a.Domain

\* The leftmost position >= pos at which re matches in s, 0 when there is
\* none.
RECURSIVE Leftmost(_, _, _)
Leftmost(re, s, pos) ==
   IF pos > Len(s) + 1 THEN 0
   ELSE IF M(re, s, pos) /= <<>> THEN pos
   ELSE Leftmost(re, s, pos + 1)

\* regexp.FindAll(s, -1): the successive non-overlapping matches, each
\* searched from the end of the one before; an empty match next to the
\* previous match is not delivered.
RECURSIVE AllMatches(_, _, _, _)
AllMatches(re, s, pos, prevMatchEnd) ==
   LET from == Leftmost(re, s, pos)
   IN  IF pos > Len(s) + 1 \/ from = 0 THEN <<>>
       ELSE LET to     == M(re, s, from)[1]
                accept == ~(to = from /\ from = prevMatchEnd)
                rest   == AllMatches(re, s, IF to = from THEN pos + 1 ELSE to, to)
            IN  IF accept THEN <<SubSeq(s, from, to - 1)>> \o rest ELSE rest

FindAll(re, s) == AllMatches(re, s, 1, 0)

(***************************************************************************)
(* Bounds and the inputs drawn within them                                 *)
(***************************************************************************)

\* An input of Parse is at most this many pieces of EmailPieces.
MaxEmailPieces == 4
\* A haystack of Find is at most this many pieces of TextPieces.
MaxTextPieces == 3
\* A DNS answer holds at most this many records.
MaxRecords == 2

EmailPieces ==
   { <<"a">>, <<"B">>, <<".">>, <<"@">>, <<"-">>, <<" ">>,
     <<"b", ".", "c">>,
     <<"\"", "@", "\"">>,
     <<"[", "1", ".", "2", ".", "3", ".", "4", "]">>,
     <<"[", "1", ".", "2", ".", "3", ".", "x", ":", "@", "]">> }

TextPieces ==
   { <<"a", "@", "b", ".", "c">>, <<"D", "@", "e", ".", "f">>,
     <<"g", "@", "[", "1", ".", "2", ".", "3", ".", "4", "]">>,
     <<" ">>, <<"@">>, <<".">>, <<"\"">> }

\* The pieces of q joined.
RECURSIVE Join(_)
Join(q) == IF q = <<>> THEN <<>> ELSE Head(q) \o Join(Tail(q))

\* Every string made of at most n pieces.
StringsOf(pieces, n) ==
   UNION { {Join(q) : q \in [1..k -> pieces]} : k \in 0..n }

Emails == StringsOf(EmailPieces, MaxEmailPieces)
Haystacks == StringsOf(TextPieces, MaxTextPieces)

\* The struct literals String is called on besides the results of Parse.
Parts == {<<>>, <<"f", "o", "o">>, <<"b", "a", "r", ".", "c", "o", "m">>}
Literals == [LocalPart : Parts, Domain : Parts]

\* The answers of net.LookupMX and net.LookupIP: an error, or up to
\* MaxRecords records (hosts, addresses) without one.
SeqsUpTo(S, n) == UNION { [1..k -> S] : k \in 0..n }
MxAnswers ==
   {[err |-> TRUE, recs |-> <<>>]} \cup
   {[err |-> FALSE, recs |-> r] : r \in SeqsUpTo({"mx1", "mx2"}, MaxRecords)}
IpAnswers ==
   {[err |-> TRUE, recs |-> <<>>]} \cup
   {[err |-> FALSE, recs |-> r] : r \in SeqsUpTo({"ip1", "ip2"}, MaxRecords)}
NotQueried == [err |-> FALSE, recs |-> <<"-">>]

(***************************************************************************)
(* lookupHost, ValidateHost and tryHost                                    *)
(***************************************************************************)

\* lookupHost on the answers mxa of LookupMX and ipa of LookupIP: mx[0].Host
\* when LookupMX gave no error, else ips[0] when LookupIP gave none, else the
\* error.  Indexing an empty answer is a run-time panic.
lookupHost(mxa, ipa) ==
   IF ~mxa.err
   THEN IF Len(mxa.recs) = 0
        THEN [ret |-> "panic", host |-> "", ipQueried |-> FALSE]
        ELSE [ret |-> "ok", host |-> mxa.recs[1], ipQueried |-> FALSE]
   ELSE IF ~ipa.err
   THEN IF Len(ipa.recs) = 0
        THEN [ret |-> "panic", host |-> "", ipQueried |-> TRUE]
        ELSE [ret |-> "ok", host |-> ipa.recs[1], ipQueried |-> TRUE]
   ELSE [ret |-> "err", host |-> "", ipQueried |-> TRUE]

\* ValidateHost that drops the error of lookupHost (a mutant of
\* ValidateHost).
ValidateHostIgnoresError(ret) ==
   IF ret = "panic" THEN "panic" ELSE "dial"

\* ValidateHost after lookupHost returned ret: the error is returned, else
\* tryHost is called (a panic unwinds).
ValidateHost(ret) ==
   IF ret = "err" THEN "vret"
   ELSE IF ret = "panic" THEN "panic"
   ELSE "dial"

\* tryHost with Mail sent whatever Hello returned (a mutant of tryHost).
tryHostGoesOn(cmd, ok) ==
   CASE cmd = "hello" -> [pc |-> "mail", err |-> IF ok THEN "nil" ELSE "hello"]
     [] cmd = "mail"  -> IF ok THEN [pc |-> "rcpt", err |-> "nil"] ELSE [pc |-> "close", err |-> "mail"]
     [] cmd = "rcpt"  -> IF ok THEN [pc |-> "reset", err |-> "nil"] ELSE [pc |-> "close", err |-> "rcpt"]
     [] cmd = "reset" -> [pc |-> "quit", err |-> "nil"]
     [] cmd = "quit"  -> [pc |-> "close", err |-> "nil"]

\* tryHost after command cmd ended ok or not: where it goes next and the
\* error it will return (Hello, Mail, Rcpt nested, each on the success of
\* the one before; the results of Reset and Quit are dropped).
tryHost(cmd, ok) ==
   CASE cmd = "hello" -> IF ok THEN [pc |-> "mail", err |-> "nil"] ELSE [pc |-> "close", err |-> "hello"]
     [] cmd = "mail"  -> IF ok THEN [pc |-> "rcpt", err |-> "nil"] ELSE [pc |-> "close", err |-> "mail"]
     [] cmd = "rcpt"  -> IF ok THEN [pc |-> "reset", err |-> "nil"] ELSE [pc |-> "close", err |-> "rcpt"]
     [] cmd = "reset" -> [pc |-> "quit", err |-> "nil"]
     [] cmd = "quit"  -> [pc |-> "close", err |-> "nil"]

\* tryHost without the deferred Close (a mutant of deferClose).
deferCloseMissing(c) == c

\* defer client.Close(): the connection after tryHost returns.
deferClose(c) == "closed"

(***************************************************************************)
(* State                                                                   *)
(***************************************************************************)

VARIABLES
   pc,            \* where the call under way stands
   email,         \* Parse: its argument
   e,             \* the *EmailAddress Parse returned, or the receiver of String
   err,           \* whether Parse returned an error
   str,           \* the result of String
   haystack,      \* Find: its first argument
   validateHost,  \* Find: its second argument
   results,       \* Find: the matches of findEmailRegexp.FindAll
   idx,           \* Find: the index of the range loop, from 1
   emails,        \* Find: the slice being built
   hist,          \* per candidate gone through, whether it was kept
   mxAns, ipAns,  \* lookupHost: what LookupMX and LookupIP answered
   host,          \* lookupHost: the host returned
   lret,          \* lookupHost: "none" before it ran, then "ok", "err" or "panic"
   conn,          \* tryHost: the client connection, "none", "open" or "closed"
   openConns,     \* the number of connections open
   cmds,          \* tryHost: the commands sent and whether each succeeded
   dialed,        \* tryHost: the host smtp.Dial was called with, "" before
   terr,          \* tryHost: the error returned
   verr           \* ValidateHost: the error returned

parseVars == <<email, e, err, str>>
findVars  == <<haystack, validateHost, results, idx, emails, hist>>
hostVars  == <<mxAns, ipAns, host, lret>>
smtpVars  == <<conn, cmds, dialed, terr, verr>>
vars == <<pc, parseVars, findVars, hostVars, smtpVars, openConns>>

Unset == <<"unset">>

HostInit ==
   /\ mxAns = NotQueried /\ ipAns = NotQueried /\ host = "" /\ lret = "none"
   /\ conn = "none" /\ cmds = <<>> /\ dialed = "" /\ terr = "nil" /\ verr = "nil"

FindIdle ==
   /\ haystack = <<>> /\ validateHost = FALSE /\ results = <<>> /\ idx = 0
   /\ emails = <<>> /\ hist = <<>>

\* A call of Parse on any input, or a struct literal about to be rendered.
Init ==
   /\ \/ pc = "start" /\ email \in Emails /\ e = NilAddress
      \/ pc = "built" /\ email = <<>> /\ e \in Literals
   /\ err = FALSE /\ str = Unset
   /\ FindIdle /\ HostInit /\ openConns = 0

\* A call of Find on any haystack, with either flag.
InitFind ==
   /\ pc = "find" /\ haystack \in Haystacks /\ validateHost \in BOOLEAN
   /\ results = <<>> /\ idx = 0 /\ emails = <<>> /\ hist = <<>>
   /\ email = <<>> /\ e = NilAddress /\ err = FALSE /\ str = Unset
   /\ HostInit /\ openConns = 0

(***************************************************************************)
(* Parse and String                                                        *)
(***************************************************************************)

ParseCall ==
   /\ pc = "start"
   /\ e' = Parse(email).e
   /\ err' = Parse(email).err
   /\ pc' = "parsed"
   /\ UNCHANGED <<email, str, findVars, hostVars, smtpVars, openConns>>

\* String on the address Parse returned, or on a struct literal.
StringCall ==
   /\ \/ pc = "parsed" /\ ~err
      \/ pc = "built"
   /\ str' = String(e)
   /\ pc' = IF pc = "parsed" THEN "rendered" ELSE "shown"
   /\ UNCHANGED <<email, e, err, findVars, hostVars, smtpVars, openConns>>

Next == ParseCall \/ StringCall

Spec == Init /\ [][Next]_vars

(***************************************************************************)
(* Find, with ValidateHost, lookupHost and tryHost run per candidate       *)
(***************************************************************************)

\* results := findEmailRegexp.FindAll(haystack, -1)
FindCall ==
   /\ pc = "find"
   /\ results' = FindAll(findEmailRegexp, haystack)
   /\ idx' = 1
   /\ pc' = "loop"
   /\ UNCHANGED <<haystack, validateHost, emails, hist, parseVars, hostVars,
                  smtpVars, openConns>>

\* One turn of the range loop up to the call of ValidateHost: the candidate
\* is parsed; one that fails is skipped, one that parses is appended when
\* validateHost is false.
LoopBody ==
   /\ pc = "loop" /\ idx <= Len(results)
   /\ LET p == Parse(results[idx])
      IN  /\ e' = p.e
          /\ err' = p.err
          /\ IF p.err
             THEN /\ idx' = idx + 1 /\ hist' = Append(hist, FALSE)
                  /\ UNCHANGED <<pc, emails>>
             ELSE IF validateHost
             THEN /\ pc' = "lookup" /\ UNCHANGED <<idx, emails, hist>>
             ELSE /\ emails' = Append(emails, p.e) /\ idx' = idx + 1
                  /\ hist' = Append(hist, TRUE) /\ UNCHANGED pc
   /\ UNCHANGED <<email, str, haystack, validateHost, results, hostVars,
                  smtpVars, openConns>>

\* return emails
FindReturn ==
   /\ pc = "loop" /\ idx > Len(results)
   /\ pc' = "done"
   /\ UNCHANGED <<parseVars, findVars, hostVars, smtpVars, openConns>>

\* ValidateHost calls lookupHost(e.Domain); the network answers anything.
LookupHost ==
   /\ pc = "lookup"
   /\ \E mxa \in MxAnswers, ipa \in IpAnswers :
         LET r == lookupHost(mxa, ipa)
         IN  /\ mxAns' = mxa
             /\ ipAns' = IF r.ipQueried THEN ipa ELSE NotQueried
             /\ host' = r.host
             /\ lret' = r.ret
             /\ pc' = ValidateHost(r.ret)
             /\ verr' = IF r.ret = "err" THEN "nohost" ELSE verr
   /\ UNCHANGED <<parseVars, findVars, conn, cmds, dialed, terr, openConns>>

\* smtp.Dial(host:25): on an error tryHost returns it and holds no client.
Dial ==
   /\ pc = "dial"
   /\ dialed' = host
   /\ \E ok \in BOOLEAN :
         IF ok
         THEN /\ conn' = "open" /\ openConns' = openConns + 1 /\ pc' = "hello"
              /\ UNCHANGED <<terr, verr>>
         ELSE /\ terr' = "dial" /\ verr' = "dial" /\ pc' = "vret"
              /\ UNCHANGED <<conn, openConns>>
   /\ UNCHANGED <<parseVars, findVars, hostVars, cmds>>

\* One command of the client, which the server accepts or not.  A Quit the
\* server accepts closes the connection.
Command(cmd) ==
   /\ pc = cmd
   /\ \E ok \in BOOLEAN :
         /\ cmds' = Append(cmds, [cmd |-> cmd, ok |-> ok])
         /\ pc' = tryHost(cmd, ok).pc
         /\ terr' = tryHost(cmd, ok).err
         /\ conn' = IF cmd = "quit" /\ ok THEN "closed" ELSE conn
         /\ openConns' = IF cmd = "quit" /\ ok THEN openConns - 1 ELSE openConns
   /\ UNCHANGED <<parseVars, findVars, hostVars, dialed, verr>>

Hello == Command("hello")
Mail  == Command("mail")
Rcpt  == Command("rcpt")
Reset == Command("reset")
Quit  == Command("quit")

\* tryHost returns: the deferred Close runs, and ValidateHost returns what
\* tryHost returned.
TryHostReturn ==
   /\ pc = "close"
   /\ conn' = deferClose(conn)
   /\ openConns' = IF conn = "open" /\ deferClose(conn) = "closed"
                   THEN openConns - 1 ELSE openConns
   /\ verr' = terr
   /\ pc' = "vret"
   /\ UNCHANGED <<parseVars, findVars, hostVars, cmds, dialed, terr>>

\* Back in the loop of Find: the candidate is appended unless ValidateHost
\* returned an error.  The locals of the calls that returned are gone.
AfterValidate ==
   /\ pc = "vret"
   /\ emails' = IF verr = "nil" THEN Append(emails, e) ELSE emails
   /\ hist' = Append(hist, verr = "nil")
   /\ idx' = idx + 1
   /\ pc' = "loop"
   /\ mxAns' = NotQueried /\ ipAns' = NotQueried /\ host' = "" /\ lret' = "none"
   /\ conn' = "none" /\ cmds' = <<>> /\ dialed' = "" /\ terr' = "nil" /\ verr' = "nil"
   /\ UNCHANGED <<parseVars, haystack, validateHost, results, openConns>>

NextFind ==
   \/ FindCall \/ LoopBody \/ FindReturn \/ LookupHost \/ Dial
   \/ Hello \/ Mail \/ Rcpt \/ Reset \/ Quit
   \/ TryHostReturn \/ AfterValidate

SpecFind == InitFind /\ [][NextFind]_vars

(***************************************************************************)
(* The properties                                                          *)
(***************************************************************************)

\* Whether the whole of s matches re.
FullMatch(re, s) ==
   LET ends == M(re, s, 1) IN \E k \in 1..Len(ends) : ends[k] = Len(s) + 1

\* The address grammar as the specification gives it: a local-part, '@' and
\* one domain.  A string conforms when the whole of it is such an address.
AddressGrammar == Cat(<<LocalPartRe, Chr("@"), DomainRe>>)
Conforms(s) == FullMatch(AddressGrammar, s)

\* Whether m occurs in s as a contiguous substring.
IsSubstring(m, s) ==
   \E i \in 1..(Len(s) - Len(m) + 1) : SubSeq(s, i, i + Len(m) - 1) = m

\* The number of '@' in s.
CountAt(s) == Cardinality({k \in 1..Len(s) : s[k] = "@"})

\* C1: String returns the empty string when LocalPart or Domain is empty,
\* and LocalPart + "@" + Domain only when both are non-empty.
C1_RenderEmptyWhenPartMissing ==
   pc \in {"rendered", "shown"} =>
      str = IF e.LocalPart = <<>> \/ e.Domain = <<>>
            THEN <<>>
            ELSE e.LocalPart \o <<"@">> \o e.Domain

\* C2: Parse returns an error and no address exactly when the whole input
\* does not conform to the grammar, and an address exactly when it does.
C2_ParseAcceptsExactlyTheGrammar ==
   pc = "parsed" =>
      /\ err <=> ~Conforms(email)
      /\ err => e = NilAddress
      /\ ~err => e /= NilAddress

\* C3: when Parse succeeds, the local part returned is non-empty and by
\* itself a local-part of the grammar, and the domain returned is non-empty
\* and by itself a domain of the grammar.
C3_ParsedPartsAreGrammatical ==
   (pc = "parsed" /\ ~err) =>
      /\ e.LocalPart /= <<>> /\ FullMatch(LocalPartRe, e.LocalPart)
      /\ e.Domain /= <<>> /\ FullMatch(DomainRe, e.Domain)

\* C4: round trip.  Parse succeeds on every string that conforms to the
\* grammar, and whenever both parts Parse returned are non-empty, String of
\* the result is the input, character for character.
C4_RoundTrip ==
   /\ (pc = "parsed" /\ Conforms(email)) => ~err
   /\ (pc = "rendered" /\ e.LocalPart /= <<>> /\ e.Domain /= <<>>) => str = email

\* A conforming input with more than one '@', parsed and rendered back.
C4_Witness ==
   pc = "rendered" /\ Conforms(email) /\ CountAt(email) >= 2 /\ str = email

\* The elements of q whose index is marked in keep.
RECURSIVE Kept(_, _)
Kept(q, keep) ==
   IF q = <<>> THEN <<>>
   ELSE LET front == Kept(SubSeq(q, 1, Len(q) - 1), keep)
        IN  IF keep[Len(q)] THEN Append(front, q[Len(q)]) ELSE front

\* Whether a is b with some elements left out.
RECURSIVE IsSubsequence(_, _)
IsSubsequence(a, b) ==
   IF a = <<>> THEN TRUE
   ELSE IF b = <<>> THEN FALSE
   ELSE IF Head(a) = Head(b) THEN IsSubsequence(Tail(a), Tail(b))
   ELSE IsSubsequence(a, Tail(b))

\* What Find returns without host validation: every match, parsed.
FindPlain(s) ==
   LET ms == FindAll(findEmailRegexp, s)
   IN  Kept([k \in 1..Len(ms) |-> Parse(ms[k]).e],
            [k \in 1..Len(ms) |-> ~Parse(ms[k]).err])

\* C5: Find always returns, and returns, in source order and with
\* duplicates, exactly the addresses of the matches that parse and, with
\* validateHost, that passed host validation; no failure of a candidate
\* reaches the caller, and the result with validateHost is a subsequence of
\* the result without.
C5_FindReturnsSurvivors ==
   /\ pc /= "panic"
   /\ pc = "done" =>
         LET ms == FindAll(findEmailRegexp, haystack)
         IN  /\ Len(hist) = Len(ms)
             /\ emails = Kept([k \in 1..Len(ms) |-> Parse(ms[k]).e], hist)
             /\ ~validateHost => emails = FindPlain(haystack)
             /\ IsSubsequence(emails, FindPlain(haystack))

\* C6: every match of the search pattern is a substring of the haystack
\* that conforms to the grammar as a whole and that Parse accepts, so that
\* Find without host validation returns one address per match, each the
\* address of such a substring.
C6_NoFalsePositive ==
   /\ pc \in {"loop", "done"} =>
         \A k \in 1..Len(results) :
            /\ IsSubstring(results[k], haystack)
            /\ Conforms(results[k])
            /\ ~Parse(results[k]).err
   /\ (pc = "done" /\ ~validateHost) =>
         /\ Len(emails) = Len(results)
         /\ \A k \in 1..Len(emails) :
               LET m == emails[k].LocalPart \o <<"@">> \o emails[k].Domain
               IN  m = results[k] /\ IsSubstring(m, haystack) /\ Conforms(m)

\* Two addresses found in a haystack that holds more than the two.
C6_Witness ==
   /\ pc = "done" /\ ~validateHost /\ Len(emails) = 2
   /\ Len(haystack) > Len(results[1]) + Len(results[2])

\* C7: lookupHost never crashes; it returns the host of the first MX record
\* when LookupMX yields records, else the first address when LookupIP
\* yields addresses, else the error and no host; a host returned is
\* non-empty.
C7_LookupHostFallsBack ==
   lret /= "none" =>
      /\ lret /= "panic"
      /\ IF ~mxAns.err /\ mxAns.recs /= <<>>
         THEN lret = "ok" /\ host = mxAns.recs[1]
         ELSE /\ ipAns /= NotQueried
              /\ IF ~ipAns.err /\ ipAns.recs /= <<>>
                 THEN lret = "ok" /\ host = ipAns.recs[1]
                 ELSE lret = "err" /\ host = ""
      /\ lret = "ok" => host /= ""

\* The order of the commands of tryHost.
Order == <<"hello", "mail", "rcpt", "reset", "quit">>

\* C8: after a connect, the commands go out in the order hello, mail, rcpt,
\* each after the success of the one before; after a failure no command
\* follows and tryHost returns that error; reset and quit follow only three
\* successes, and tryHost then returns no error whatever they answer.
C8_ProbeSequence ==
   /\ Len(cmds) <= Len(Order)
   /\ \A k \in 1..Len(cmds) : cmds[k].cmd = Order[k]
   /\ \A k \in 1..(Len(cmds) - 1) : k <= 3 => cmds[k].ok
   /\ (pc = "vret" /\ conn /= "none") =>
         /\ cmds /= <<>>
         /\ IF \E k \in 1..Len(cmds) : k <= 3 /\ ~cmds[k].ok
            THEN Len(cmds) <= 3 /\ terr = cmds[Len(cmds)].cmd /\ verr = terr
            ELSE Len(cmds) = 5 /\ terr = "nil" /\ verr = "nil"

\* tryHost returned no error although the server refused reset and quit.
C8_Witness ==
   /\ pc = "vret" /\ Len(cmds) = 5 /\ ~cmds[4].ok /\ ~cmds[5].ok /\ terr = "nil"

\* C9: the connection of tryHost is closed on every way out after a connect
\* and none is held after a failed connect; at most one connection is open
\* at any moment of Find, and none outside tryHost or after Find returned.
C9_ConnectionScoped ==
   /\ openConns \in {0, 1}
   /\ openConns = 1 => conn = "open"
   /\ pc \notin {"hello", "mail", "rcpt", "reset", "quit", "close"} =>
         openConns = 0 /\ conn /= "open"
   /\ terr = "dial" => conn = "none"

\* Find returned after two candidates were each probed over a connection.
C9_Witness ==
   pc = "done" /\ validateHost /\ Len(emails) >= 2 /\ openConns = 0

\* C10: ValidateHost calls tryHost only after lookupHost returned a host,
\* and with that host; it returns the error of lookupHost without a connect
\* attempt, else exactly what tryHost returned.
C10_ValidateHostComposes ==
   /\ dialed /= "" => lret = "ok" /\ dialed = host
   /\ pc \in {"dial", "hello", "mail", "rcpt", "reset", "quit", "close"} => lret = "ok"
   /\ pc = "vret" =>
         IF lret = "err"
         THEN verr = "nohost" /\ dialed = "" /\ conn = "none" /\ cmds = <<>>
         ELSE lret = "ok" /\ dialed = host /\ verr = terr

\* ValidateHost returned the error of lookupHost, both queries having failed.
C10_Witness ==
   pc = "vret" /\ lret = "err" /\ mxAns.err /\ ipAns.err /\ verr = "nohost"
====
